---- MODULE Spec2Model ----
(***************************************************************************)
(* A model of src/src/subject.rs: Subject, a broadcast node over a shared  *)
(* registry Rc<RefCell<Vec<Box<FnMut(&T)>>>>, and SubjectSubscription,     *)
(* which removes a callback by comparing raw fat pointers.                 *)
(*                                                                         *)
(* Execution is single threaded.  A call of next is a delivery pass that   *)
(* holds the RefCell's exclusive borrow for the whole for loop; the        *)
(* callbacks it invokes run inside the pass and may call back into the     *)
(* subject.  A failed borrow_mut panics; the panic unwinds the whole call  *)
(* stack and the program performs no further operation.                    *)
(***************************************************************************)
EXTENDS Integers, Sequences, FiniteSets

\* ------------------------------------------------------------------ bounds
MaxRegs == 3        \* subscribe calls in one run
MaxNext == 2        \* values pushed in one run (next calls and upstream items)
MaxHandles == 2     \* Subject handles the program holds at one time
MaxVal == 2         \* pushed values are 1..MaxVal
MaxReentrant == 1   \* subscribe calls in one run whose closure calls back into the subject
MaxVtables == 2     \* copies of one closure type's vtable in the built program

Vals == 1..MaxVal

\* The address of every Box of a zero-sized closure: Box::new does not
\* allocate for a zero-sized type and returns the dangling aligned pointer.
Dangling == 0

\* Closure types a program subscribes.  Each closure expression has its own
\* type, hence its own size.
\*   rec     captures a reference to a variable and records the value
\*   unit    captures nothing (zero sized)
\*   resub   captures a Subject handle and subscribes a rec closure with it
\*   reunsub captures a subscription and unsubscribes it
\*   renext  captures a Subject handle and calls next on it
Kinds == {"rec", "unit", "resub", "reunsub", "renext"}
Reentrant == {"resub", "reunsub", "renext"}

VARIABLES
  cells,          \* heap of Rc<RefCell<Vec<..>>>: Seq of [vec, borrow]
  held,           \* Subject handles the program holds: Seq of Rc ids (indices of cells)
  stream,         \* Rc id of the handle from_stream's closure captured; 0 without a live upstream
  subscriptions,  \* one record per subscribe call, the SubjectSubscription it returned
  stack,          \* delivery passes in progress, innermost last
  calls,          \* one record per value pushed
  trace,          \* callback invocations, in the order they happened
  panicked        \* a borrow_mut failed and the stack was unwound

vars == <<cells, held, stream, subscriptions, stack, calls, trace, panicked>>

\* ------------------------------------------------------- values and helpers
\* RefCell<Vec<..>> behind an Rc: the Vec and the RefCell's exclusive-borrow flag.
EmptyCell == [vec |-> <<>>, borrow |-> FALSE]

\* Whether a closure of kind k is zero sized (captures nothing).
IsZst(k) == k = "unit"

\* A vtable of closure type k.  The build emits one copy per codegen unit
\* or crate that instantiates subscribe for the type and may or may not
\* merge the copies, so a type has from one to MaxVtables vtable addresses:
\* c is the copy.
Vtable(k, c) == <<k, c>>

\* CallbackPtr: a fat pointer, the Box's data address and the address of
\* the vtable the unsizing coercion in subscribe picked.  Raw fat pointers
\* are equal iff both parts are equal.
CallbackPtr(a, vt) == <<a, vt>>

\* The closure type behind a fat pointer.
TypeOf(ptr) == ptr[2][1]

\* Addresses of the live Boxes in heap cs.
LiveAddrs(cs) ==
  UNION {{cs[r].vec[i].ptr[1] : i \in DOMAIN cs[r].vec} : r \in DOMAIN cs}

\* The highest address a Box has had so far.  Addresses are named in the
\* order the allocator first hands them out: 1, 2, ...; which address a
\* Box gets is the allocator's choice, a freed one may be handed out again.
HighWater(subs) ==
  LET used == {subs[n].callback[1] : n \in DOMAIN subs}
  IN IF used = {} THEN 0 ELSE CHOOSE a \in used : \A b \in used : b <= a

\* Box::new(observer): the addresses the new Box may get.  A zero-sized
\* closure gets the dangling pointer; a sized one gets any address that is
\* not in use, one freed earlier or the next new one.
BoxAddrs(cs, subs, k) ==
  IF IsZst(k) THEN {Dangling}
  ELSE (1..(HighWater(subs) + 1)) \ LiveAddrs(cs)

\* The vtable copies of closure type k the subscribe calls so far have used.
CopiesUsed(subs, k) ==
  {subs[n].callback[2][2] : n \in {m \in DOMAIN subs : TypeOf(subs[m].callback) = k}}

\* Box::new(observer) as Box<FnMut>: the vtables the coercion may pick for a
\* closure of type k.  Which copy a subscribe call site uses is the build's
\* choice; copies are named in the order they are first used.
BoxVtables(subs, k) ==
  {Vtable(k, c) : c \in 1..(IF Cardinality(CopiesUsed(subs, k)) < MaxVtables
                              THEN Cardinality(CopiesUsed(subs, k)) + 1
                              ELSE MaxVtables)}

BorrowMutAlways(cs, r) == TRUE

\* RefCell::borrow_mut succeeds iff the cell is not borrowed.
BorrowMut(cs, r) == ~cs[r].borrow

PushFront(vec, e) == <<e>> \o vec

PushOverwrite(vec, e) == <<e>>

\* Vec::push
Push(vec, e) == Append(vec, e)

RetainInverted(vec, ptr) == SelectSeq(vec, LAMBDA x : x.ptr = ptr)

RetainSwap(vec, ptr) ==
  LET hits == {i \in DOMAIN vec : vec[i].ptr = ptr}
  IN IF hits = {} THEN vec
     ELSE LET i == CHOOSE h \in hits : \A g \in hits : h <= g
          IN [j \in 1..(Len(vec) - 1) |->
                IF j = i THEN vec[Len(vec)] ELSE vec[j]]

\* Vec::retain(|x| x.as_ref() as *const _ != ptr)
Retain(vec, ptr) == SelectSeq(vec, LAMBDA x : x.ptr # ptr)

\* Subject::new: a fresh Rc over an empty Vec.
SubjectNew(cs) == [cells |-> Append(cs, EmptyCell), rc |-> Len(cs) + 1]

SubjectCloneFresh(cs, r) == [cells |-> Append(cs, EmptyCell), rc |-> Len(cs) + 1]

\* Subject::clone: Rc::clone, a second handle to the same cell.
SubjectClone(cs, r) == [cells |-> cs, rc |-> r]

\* Subject::subscribe on a handle to cell r, with the boxed observer e.
SubscribeOn(cs, r, e) ==
  IF BorrowMut(cs, r)
    THEN [ok |-> TRUE, cells |-> [cs EXCEPT ![r].vec = Push(@, e)]]
    ELSE [ok |-> FALSE, cells |-> cs]

\* Subject::remove_callback on a handle to cell r.
RemoveCallback(cs, r, ptr) ==
  IF BorrowMut(cs, r)
    THEN [ok |-> TRUE, cells |-> [cs EXCEPT ![r].vec = Retain(@, ptr)]]
    ELSE [ok |-> FALSE, cells |-> cs]

BeginIterUnchecked(cs, r) ==
  [ok |-> TRUE, cells |-> [cs EXCEPT ![r].borrow = TRUE]]

\* The first line of Subject::next: borrow_mut().iter_mut(); the RefMut is
\* a temporary of the for loop's iterator expression and lives until the
\* loop ends.
BeginIter(cs, r) ==
  IF BorrowMut(cs, r)
    THEN [ok |-> TRUE, cells |-> [cs EXCEPT ![r].borrow = TRUE]]
    ELSE [ok |-> FALSE, cells |-> cs]

EndIterDrained(cs, r) == [cs EXCEPT ![r] = EmptyCell]

\* The end of the for loop in Subject::next: the RefMut is dropped.
EndIter(cs, r) == [cs EXCEPT ![r].borrow = FALSE]

\* Unwinding drops every RefMut on the stack.
Unwind(cs) == [r \in DOMAIN cs |-> [cs[r] EXCEPT !.borrow = FALSE]]

DeliveredStale(v) == IF v > 1 THEN v - 1 ELSE v

\* The value a callback is invoked with: observer(&v).
Delivered(v) == v

NextPosSkip(p) == p + 2

\* The Vec position the for loop visits after position p.
NextPos(p) == p + 1

\* The registrations of a Vec, in Vec order.
RegsOf(vec) == [i \in DOMAIN vec |-> vec[i].reg]

\* Every registration in some Vec of the heap.
AllRegs(cs) ==
  UNION {{cs[r].vec[i].reg : i \in DOMAIN cs[r].vec} : r \in DOMAIN cs}

\* The subscribe calls so far whose closure calls back into the subject.
ReentrantCount(subs) ==
  Cardinality({n \in DOMAIN subs : TypeOf(subs[n].callback) \in Reentrant})

Remove(s, i) == [j \in 1..(Len(s) - 1) |-> IF j < i THEN s[j] ELSE s[j + 1]]

Top == stack[Len(stack)]

\* The program is between operations: no delivery pass is running.
Idle == ~panicked /\ stack = <<>>

\* --------------------------------------------------------------------- Init
\* The program has built one subject, by Subject::new() or by
\* Subject::from_stream(upstream); from_stream moves a clone into the
\* closure it subscribes to the upstream.
Init ==
  \E fromStream \in BOOLEAN :
    LET n == SubjectNew(<<>>)
        c == SubjectClone(n.cells, n.rc)
    IN /\ cells = IF fromStream THEN c.cells ELSE n.cells
       /\ held = <<n.rc>>
       /\ stream = IF fromStream THEN c.rc ELSE 0
       /\ subscriptions = <<>>
       /\ stack = <<>>
       /\ calls = <<>>
       /\ trace = <<>>
       /\ panicked = FALSE

\* ------------------------------------------------------------------ actions
\* A failed borrow_mut: the panic unwinds every pass in progress.
Panic ==
  /\ panicked' = TRUE
  /\ stack' = <<>>
  /\ calls' = [c \in DOMAIN calls |->
                 IF calls[c].status = "running"
                   THEN [calls[c] EXCEPT !.status = "panicked"] ELSE calls[c]]

\* handle.clone()
Clone(i) ==
  /\ Idle
  /\ i \in DOMAIN held
  /\ Len(held) < MaxHandles
  /\ LET c == SubjectClone(cells, held[i])
     IN /\ cells' = c.cells
        /\ held' = Append(held, c.rc)
  /\ UNCHANGED <<stream, subscriptions, stack, calls, trace, panicked>>

\* drop(handle).  The Vec is freed with the last Rc that refers to it
\* (handles, subscriptions, closures); from then on no operation can reach
\* it, so the model keeps its contents.
DropHandle(i) ==
  /\ Idle
  /\ i \in DOMAIN held
  /\ held' = Remove(held, i)
  /\ UNCHANGED <<cells, stream, subscriptions, stack, calls, trace, panicked>>

\* handle.subscribe(observer), observer a closure of kind k.  The address
\* a of its Box is the allocator's choice and the vtable vt of the trait
\* object the build's.  subscribe takes the handle by value and moves it
\* into the subscription.  A resub or renext closure has captured a clone
\* of the handle, a reunsub closure the live subscription j.
Subscribe(i, k, j) ==
  /\ Idle
  /\ i \in DOMAIN held
  /\ Len(subscriptions) < MaxRegs
  /\ k \in Reentrant => ReentrantCount(subscriptions) < MaxReentrant
  /\ IF k = "reunsub"
       THEN j \in DOMAIN subscriptions /\ subscriptions[j].state = "live"
       ELSE j = 0
  /\ \E a \in BoxAddrs(cells, subscriptions, k),
        vt \in BoxVtables(subscriptions, k) :
       LET c == IF k \in {"resub", "renext"}
                  THEN SubjectClone(cells, held[i])
                  ELSE [cells |-> cells, rc |-> 0]
           e == [reg |-> Len(subscriptions) + 1,
                 ptr |-> CallbackPtr(a, vt),
                 kind |-> k,
                 cap |-> IF k = "reunsub" THEN j ELSE c.rc]
           res == SubscribeOn(c.cells, held[i], e)
           taken == IF k = "reunsub"
                      THEN [subscriptions EXCEPT ![j].state = "captured"]
                      ELSE subscriptions
       IN IF res.ok
            THEN /\ cells' = res.cells
                 /\ subscriptions' =
                      Append(taken, [source |-> held[i], callback |-> e.ptr,
                                     state |-> "live", born |-> Len(calls)])
                 /\ UNCHANGED <<stack, calls, panicked>>
            ELSE /\ cells' = Unwind(res.cells)
                 /\ subscriptions' = taken
                 /\ Panic
  /\ held' = Remove(held, i)
  /\ UNCHANGED <<stream, trace>>

\* subscription.unsubscribe(): consumes the subscription.
Unsubscribe(n) ==
  /\ Idle
  /\ n \in DOMAIN subscriptions
  /\ subscriptions[n].state = "live"
  /\ LET s == subscriptions[n]
         res == RemoveCallback(cells, s.source, s.callback)
     IN /\ subscriptions' = [subscriptions EXCEPT ![n].state = "unsubscribed"]
        /\ IF res.ok
             THEN cells' = res.cells /\ UNCHANGED <<stack, calls, panicked>>
             ELSE cells' = Unwind(res.cells) /\ Panic
  /\ UNCHANGED <<held, stream, trace>>

\* drop(subscription): SubjectSubscription has no Drop implementation, so
\* only its fields are dropped, the handle among them.
DropSubscription(n) ==
  /\ Idle
  /\ n \in DOMAIN subscriptions
  /\ subscriptions[n].state = "live"
  /\ subscriptions' = [subscriptions EXCEPT ![n].state = "dropped"]
  /\ UNCHANGED <<cells, held, stream, stack, calls, trace, panicked>>

\* The start of next(v) on a handle to cell r, pushed by src.
Begin(r, v, src) ==
  LET res == BeginIter(cells, r)
      call == [v |-> v,
               snap |-> RegsOf(cells[r].vec),
               all |-> AllRegs(cells),
               status |-> IF res.ok THEN "running" ELSE "panicked"]
  IN IF res.ok
       THEN /\ cells' = res.cells
            /\ stack' = Append(stack, [rc |-> r, v |-> v, pos |-> 1,
                                       call |-> Len(calls) + 1,
                                       src |-> src])
            /\ calls' = Append(calls, call)
            /\ UNCHANGED panicked
       ELSE /\ cells' = Unwind(res.cells)
            /\ panicked' = TRUE
            /\ stack' = <<>>
            /\ calls' = Append([c \in DOMAIN calls |->
                                  [calls[c] EXCEPT !.status =
                                     IF @ = "running" THEN "panicked" ELSE @]],
                               call)

\* handle.next(v)
SubjectNext(i, v) ==
  /\ Idle
  /\ i \in DOMAIN held
  /\ Len(calls) < MaxNext
  /\ Begin(held[i], v, "next")
  /\ UNCHANGED <<held, stream, subscriptions, trace>>

\* The upstream produces v: from_stream's closure runs clone.next(v).
UpstreamItem(v) ==
  /\ Idle
  /\ stream # 0
  /\ Len(calls) < MaxNext
  /\ Begin(stream, v, "upstream")
  /\ UNCHANGED <<held, stream, subscriptions, trace>>

\* The upstream ends and drops from_stream's closure.
UpstreamEnd ==
  /\ Idle
  /\ stream # 0
  /\ stream' = 0
  /\ UNCHANGED <<cells, held, subscriptions, stack, calls, trace, panicked>>

\* One iteration of the for loop of the innermost pass, on an entry of
\* kind k: observer(&v) is called.
Visit(k) ==
  /\ ~panicked
  /\ stack # <<>>
  /\ Top.pos \in DOMAIN cells[Top.rc].vec
  /\ cells[Top.rc].vec[Top.pos].kind = k
  /\ trace' = Append(trace, [call |-> Top.call,
                             reg |-> cells[Top.rc].vec[Top.pos].reg,
                             val |-> Delivered(Top.v)])

Visited == cells[Top.rc].vec[Top.pos]

Advance == stack' = [stack EXCEPT ![Len(stack)].pos = NextPos(@)]

\* The callback only uses the value.
InvokePlain ==
  /\ \E k \in {"rec", "unit"} : Visit(k)
  /\ Advance
  /\ UNCHANGED <<cells, held, stream, subscriptions, calls, panicked>>

\* The callback runs captured.clone().subscribe(rec closure) and drops the
\* subscription it gets.
InvokeResub ==
  /\ Visit("resub")
  /\ \E a \in BoxAddrs(cells, subscriptions, "rec"),
        vt \in BoxVtables(subscriptions, "rec") :
       LET c == SubjectClone(cells, Visited.cap)
           e == [reg |-> Len(subscriptions) + 1,
                 ptr |-> CallbackPtr(a, vt), kind |-> "rec", cap |-> 0]
           res == SubscribeOn(c.cells, c.rc, e)
       IN IF res.ok
            THEN /\ Len(subscriptions) < MaxRegs
                 /\ cells' = res.cells
                 /\ subscriptions' =
                      Append(subscriptions,
                             [source |-> c.rc, callback |-> e.ptr,
                              state |-> "dropped", born |-> Len(calls)])
                 /\ Advance
                 /\ UNCHANGED <<calls, panicked>>
            ELSE /\ cells' = Unwind(res.cells)
                 /\ Panic
                 /\ UNCHANGED subscriptions
  /\ UNCHANGED <<held, stream>>

\* The callback takes the subscription it captured and unsubscribes it.
InvokeReunsub ==
  /\ Visit("reunsub")
  /\ LET n == Visited.cap
         s == subscriptions[n]
     IN IF s.state = "captured"
          THEN LET res == RemoveCallback(cells, s.source, s.callback)
               IN /\ subscriptions' =
                       [subscriptions EXCEPT ![n].state = "unsubscribed"]
                  /\ IF res.ok
                       THEN /\ cells' = res.cells
                            /\ Advance
                            /\ UNCHANGED <<calls, panicked>>
                       ELSE cells' = Unwind(res.cells) /\ Panic
          ELSE /\ Advance
               /\ UNCHANGED <<cells, subscriptions, calls, panicked>>
  /\ UNCHANGED <<held, stream>>

\* The callback runs captured.next(v) with the value it got.
InvokeRenext ==
  /\ Visit("renext")
  /\ Begin(Visited.cap, Top.v, "callback")
  /\ UNCHANGED <<held, stream, subscriptions>>

\* The for loop of the innermost pass ends and next returns.
Return ==
  /\ ~panicked
  /\ stack # <<>>
  /\ Top.pos \notin DOMAIN cells[Top.rc].vec
  /\ cells' = EndIter(cells, Top.rc)
  /\ stack' = SubSeq(stack, 1, Len(stack) - 1)
  /\ calls' = [calls EXCEPT ![Top.call].status = "returned"]
  /\ UNCHANGED <<held, stream, subscriptions, trace, panicked>>

Next ==
  \/ \E i \in 1..MaxHandles : Clone(i)
  \/ \E i \in 1..MaxHandles : DropHandle(i)
  \/ \E i \in 1..MaxHandles, k \in Kinds, j \in 0..MaxRegs : Subscribe(i, k, j)
  \/ \E n \in 1..MaxRegs : Unsubscribe(n)
  \/ \E n \in 1..MaxRegs : DropSubscription(n)
  \/ \E i \in 1..MaxHandles, v \in Vals : SubjectNext(i, v)
  \/ \E v \in Vals : UpstreamItem(v)
  \/ UpstreamEnd
  \/ InvokePlain
  \/ InvokeResub
  \/ InvokeReunsub
  \/ InvokeRenext
  \/ Return

Spec == Init /\ [][Next]_vars

\* ---------------------------------------------------- vocabulary of the claims
\* Callback n (the one the n-th subscribe call boxed) is in a registry.
Registered(n) == n \in AllRegs(cells)

\* The closure type of callback n.
KindOf(n) == TypeOf(subscriptions[n].callback)

\* The invocations call c made, in order.
EventsOf(c) == SelectSeq(trace, LAMBDA ev : ev.call = c)

\* The invocations of callback n, in order.
Invocations(n) == SelectSeq(trace, LAMBDA ev : ev.reg = n)

\* One invocation with the pushed value per callback that was in the
\* registry of the handle when call c began, in registry order.
Expected(c) ==
  [i \in DOMAIN calls[c].snap |->
     [call |-> c, reg |-> calls[c].snap[i], val |-> calls[c].v]]

IsPrefix(s, t) == Len(s) <= Len(t) /\ \A i \in DOMAIN s : s[i] = t[i]

\* The innermost pass has visited every entry and is about to return.
PassComplete == stack # <<>> /\ Top.pos \notin DOMAIN cells[Top.rc].vec

\* This step is unsubscribe on subscription n and it did not panic.
UnsubscribeStep(n) ==
  /\ n \in DOMAIN subscriptions
  /\ subscriptions[n].state \in {"live", "captured"}
  /\ subscriptions'[n].state = "unsubscribed"
  /\ ~panicked'

\* C1: while next(v) runs it invokes the callbacks that were registered when
\* it began, each once with v, earlier-subscribed before later-subscribed, and
\* when it returns it has invoked every one of them.
C1_NextInvokesAllInOrder ==
  \A c \in DOMAIN calls :
    /\ \A i, j \in DOMAIN calls[c].snap :
         i < j => calls[c].snap[i] < calls[c].snap[j]
    /\ IsPrefix(EventsOf(c), Expected(c))
    /\ calls[c].status = "returned" => EventsOf(c) = Expected(c)

C1_Witness ==
  \E c \in DOMAIN calls :
    /\ calls[c].status = "returned"
    /\ Len(calls[c].snap) >= 2
    /\ EventsOf(c) = Expected(c)

\* C2: once unsubscribe has been called on the subscription of callback n, no
\* step invokes callback n again.
C2_NoInvocationAfterUnsubscribe ==
  [][\A n \in DOMAIN subscriptions :
       subscriptions[n].state = "unsubscribed"
         => Invocations(n)' = Invocations(n)]_vars

\* Callback n was invoked by call c1, was then unsubscribed, and the later
\* call c2 returned without invoking it.
C2_Witness ==
  \E n \in DOMAIN subscriptions : \E c1, c2 \in DOMAIN calls :
    /\ subscriptions[n].state = "unsubscribed"
    /\ c1 < c2
    /\ calls[c2].status = "returned"
    /\ \E i \in DOMAIN trace : trace[i].reg = n /\ trace[i].call = c1
    /\ \A i \in DOMAIN trace : trace[i].call = c2 => trace[i].reg # n

\* C3: a step that unsubscribes subscription n removes callback n from the
\* registry and nothing else.
C3_UnsubscribeRemovesExactlyOne ==
  [][\A n \in 1..MaxRegs :
       UnsubscribeStep(n) =>
         /\ AllRegs(cells') = AllRegs(cells) \ {n}
         /\ \A r \in DOMAIN cells :
              Len(cells'[r].vec) >= Len(cells[r].vec) - 1]_vars

\* C4: every handle refers to the one registry, no callback is in it twice,
\* and a call of next that returned, on whichever handle, invoked every
\* callback registered through any handle exactly once.
C4_ClonesShareOneRegistry ==
  /\ \A i \in DOMAIN held : held[i] = 1
  /\ stream \in {0, 1}
  /\ \A n \in DOMAIN subscriptions : subscriptions[n].source = 1
  /\ \A r \in DOMAIN cells : \A i, j \in DOMAIN cells[r].vec :
       cells[r].vec[i].reg = cells[r].vec[j].reg => i = j
  /\ \A c \in DOMAIN calls :
       calls[c].status = "returned" =>
         \A n \in calls[c].all :
           Cardinality({i \in DOMAIN trace :
                          trace[i].call = c /\ trace[i].reg = n}) = 1

\* A call on a handle the program still holds returned after invoking a
\* callback that was subscribed through another handle (subscribe consumed it),
\* while the program held two handles.
C4_Witness ==
  /\ Len(held) = 2
  /\ \E c \in DOMAIN calls :
       /\ calls[c].status = "returned"
       /\ calls[c].all # {}
       /\ \A n \in calls[c].all : \E i \in DOMAIN trace :
            trace[i].call = c /\ trace[i].reg = n

\* C5: when the pass of an upstream item has visited the registry, every
\* callback registered when the item was produced has been invoked exactly
\* once with the item; and no step but the end of the upstream detaches the
\* forwarding closure.
C5_Forwarded ==
  (PassComplete /\ Top.src = "upstream") =>
     /\ EventsOf(Top.call) = Expected(Top.call)
     /\ {calls[Top.call].snap[i] : i \in DOMAIN calls[Top.call].snap}
          = calls[Top.call].all

C5_LinkKept ==
  stream' # stream => UNCHANGED <<cells, held, subscriptions, stack, calls, trace>>

C5_FromStreamForwards == []C5_Forwarded /\ [][C5_LinkKept]_vars

\* The second upstream item has been delivered to a callback after an
\* unsubscribe of another.
C5_Witness ==
  /\ PassComplete
  /\ Top.src = "upstream"
  /\ Top.call = 2
  /\ Len(calls[Top.call].snap) >= 1
  /\ \E n \in DOMAIN subscriptions : subscriptions[n].state = "unsubscribed"
  /\ EventsOf(Top.call) = Expected(Top.call)

\* C6: of two callbacks subscribed with the same closure, unsubscribing one
\* leaves the other registered for as long as it is not unsubscribed itself.
C6_SameClosureIndependent ==
  \A n, m \in DOMAIN subscriptions :
    /\ n # m
    /\ KindOf(n) = KindOf(m)
    /\ subscriptions[n].state = "unsubscribed"
    /\ subscriptions[m].state # "unsubscribed"
    => Registered(m)

\* C7: a pass does not fail in a callback that subscribes to or unsubscribes
\* from the subject.
C7_ReentrantEditsDoNotFail ==
  panicked /\ trace # <<>> =>
    KindOf(trace[Len(trace)].reg) \notin {"resub", "reunsub"}

\* C8: the identity a subscription that was not unsubscribed holds is the
\* identity of no registered callback but its own.
C8_IdentityNeverAliases ==
  \A n \in DOMAIN subscriptions :
    subscriptions[n].state # "unsubscribed" =>
      \A r \in DOMAIN cells : \A i \in DOMAIN cells[r].vec :
        cells[r].vec[i].ptr = subscriptions[n].callback
          => cells[r].vec[i].reg = n

\* C9: a registered callback whose subscription was discarded stays
\* registered in every later step, so that every later next finds it.
C9_DiscardedStaysRegistered ==
  [][\A n \in DOMAIN subscriptions :
       (subscriptions[n].state = "dropped" /\ Registered(n))
         => Registered(n)']_vars

\* C10: a callback is invoked only by calls that began after it was
\* subscribed, with the value of that call, and the first call that invokes
\* it is the first call after its subscribe.
C10_NoReplay ==
  /\ \A i \in DOMAIN trace :
       /\ trace[i].call > subscriptions[trace[i].reg].born
       /\ trace[i].val = calls[trace[i].call].v
  /\ \A n \in DOMAIN subscriptions :
       Invocations(n) # <<>> =>
         Invocations(n)[1].call = subscriptions[n].born + 1

\* A callback subscribed after the first value was pushed has been invoked
\* with a second, different, value.
C10_Witness ==
  \E n \in DOMAIN subscriptions :
    /\ subscriptions[n].born = 1
    /\ Invocations(n) # <<>>
    /\ Invocations(n)[1].val # calls[1].v

\* This step calls subscribe: from the program, or from a resub callback.
SubscribeCalled ==
  \/ Len(subscriptions') > Len(subscriptions)
  \/ /\ Len(trace') > Len(trace)
     /\ KindOf(trace'[Len(trace')].reg) = "resub"

\* This step calls unsubscribe on subscription n, hence remove_callback
\* with the identity it holds.
RemoveCallbackCalled(n) ==
  /\ n \in DOMAIN subscriptions
  /\ subscriptions[n].state \in {"live", "captured"}
  /\ subscriptions'[n].state = "unsubscribed"

\* No entry of the registry of subscription n has the identity it holds.
MatchesNone(n) ==
  \A i \in DOMAIN cells[subscriptions[n].source].vec :
    cells[subscriptions[n].source].vec[i].ptr # subscriptions[n].callback

\* C11: every call of subscribe succeeds, and the registry after it is the
\* registry before it with the new entry appended.
C11_SubscribeAppends ==
  [][SubscribeCalled =>
       /\ ~panicked'
       /\ Len(subscriptions') = Len(subscriptions) + 1
       /\ \E r \in DOMAIN cells :
            /\ Len(cells'[r].vec) = Len(cells[r].vec) + 1
            /\ SubSeq(cells'[r].vec, 1, Len(cells[r].vec)) = cells[r].vec
            /\ cells'[r].vec[Len(cells'[r].vec)].reg = Len(subscriptions')]_vars

\* C12: remove_callback with an identity that no entry has reports no error
\* and leaves every registry as it was.
C12_RemoveAbsentIsNoOp ==
  [][\A n \in 1..MaxRegs :
       (RemoveCallbackCalled(n) /\ MatchesNone(n)) =>
         /\ ~panicked'
         /\ \A r \in DOMAIN cells : cells'[r].vec = cells[r].vec]_vars

\* The registrations of a Vec are in the order of their subscribe calls.
InSubscribeOrder(regs) ==
  \A i, j \in DOMAIN regs : i < j => regs[i] < regs[j]

\* C13: a callback leaves the registry only in a step that calls
\* unsubscribe, a callback that has left the registry is never in it again,
\* and a subscription that was unsubscribed stays unsubscribed.
C13_UnsubscribedIsTerminal ==
  [][\A n \in DOMAIN subscriptions :
       /\ ~Registered(n) => ~Registered(n)'
       /\ (Registered(n) /\ ~Registered(n)')
            => \E m \in DOMAIN subscriptions : RemoveCallbackCalled(m)
       /\ subscriptions[n].state = "unsubscribed"
            => subscriptions'[n].state = "unsubscribed"]_vars

\* Callback n was invoked by call 1 and then unsubscribed; a callback was
\* subscribed after that call and call 2 returned: n is still out of the
\* registry.
C13_Witness ==
  \E n, m \in DOMAIN subscriptions :
    /\ subscriptions[n].state = "unsubscribed"
    /\ ~Registered(n)
    /\ Invocations(n) # <<>>
    /\ subscriptions[m].born = 1
    /\ Registered(m)
    /\ Len(calls) = 2
    /\ calls[2].status = "returned"

\* C14: the entries of a registry are always in the order of their subscribe
\* calls, whatever was removed, and each call invokes callbacks in that order.
C14_OrderPreserved ==
  /\ \A r \in DOMAIN cells : InSubscribeOrder(RegsOf(cells[r].vec))
  /\ \A i, j \in DOMAIN trace :
       (i < j /\ trace[i].call = trace[j].call) => trace[i].reg < trace[j].reg

\* Three callbacks were invoked by call 1; the middle one was unsubscribed
\* and call 2 invoked the first and then the third.
C14_Witness ==
  /\ Len(calls) = 2
  /\ calls[1].snap = <<1, 2, 3>>
  /\ calls[2].snap = <<1, 3>>
  /\ calls[2].status = "returned"
  /\ subscriptions[2].state = "unsubscribed"
  /\ EventsOf(2) = Expected(2)

\* C15: when no subscribed closure calls back into the subject, the registry
\* holds exactly the callbacks whose subscription was not unsubscribed, once
\* each, in the order of their subscribe calls.
C15_RegistryIsLiveSubscriptions ==
  ReentrantCount(subscriptions) = 0 =>
    \A r \in DOMAIN cells :
      /\ InSubscribeOrder(RegsOf(cells[r].vec))
      /\ \A n \in DOMAIN subscriptions :
           subscriptions[n].source = r =>
             (subscriptions[n].state # "unsubscribed"
                <=> \E i \in DOMAIN cells[r].vec : cells[r].vec[i].reg = n)

\* C16: invocations happen in the order of the calls: no invocation of an
\* earlier call follows one of a later call, a call begins only when every
\* earlier call has ended, and a callback sees the values in call order.
C16_DeliveryOrderedAcrossCalls ==
  /\ \A i, j \in DOMAIN trace : i < j => trace[i].call <= trace[j].call
  /\ \A c \in DOMAIN calls : c < Len(calls) => calls[c].status # "running"
  /\ \A i, j \in DOMAIN trace :
       (i < j /\ trace[i].reg = trace[j].reg) => trace[i].call < trace[j].call

\* A callback was invoked by two calls that pushed different values.
C16_Witness ==
  \E n \in DOMAIN subscriptions :
    /\ Len(Invocations(n)) = 2
    /\ Invocations(n)[1].val # Invocations(n)[2].val
    /\ calls[2].status = "returned"

\* C17: no step of a delivery pass, from the start of next to its return,
\* changes a registry: the entries, their identities and their order stay.
C17_NextLeavesRegistry ==
  [][(stack # <<>> \/ stack' # <<>>) =>
       /\ DOMAIN cells' = DOMAIN cells
       /\ \A r \in DOMAIN cells : cells'[r].vec = cells[r].vec]_vars

\* The last call returned after invoking two callbacks, and the registry is
\* what it was when the call began.
C17_Witness ==
  /\ Idle
  /\ calls # <<>>
  /\ calls[Len(calls)].status = "returned"
  /\ Len(calls[Len(calls)].snap) = 2
  /\ EventsOf(Len(calls)) = Expected(Len(calls))
  /\ RegsOf(cells[1].vec) = calls[Len(calls)].snap

\* C18: at most one delivery pass runs at a time, and a callback that calls
\* next from inside a pass fails: the invocation of that callback is the last
\* one, and the call it made is recorded as failed and invoked nothing.
C18_PassesNeverNest ==
  /\ Len(stack) <= 1
  /\ \A i \in DOMAIN trace :
       KindOf(trace[i].reg) = "renext" =>
         /\ panicked
         /\ i = Len(trace)
         /\ Len(calls) = trace[i].call + 1
         /\ calls[Len(calls)].status = "panicked"
         /\ EventsOf(Len(calls)) = <<>>

\* A pass invoked a callback and then one that called next, which failed.
C18_Witness ==
  /\ panicked
  /\ Len(trace) >= 2
  /\ KindOf(trace[Len(trace)].reg) = "renext"
  /\ EventsOf(Len(calls)) = <<>>

====
